---- MODULE Spec2Model ----
(***************************************************************************)
(* Failure-aware authorization: the retry-safe authorizer, the trust       *)
(* monitor, the trust-aware decision path with its runtime invariants, and *)
(* the resilient audit service, each as a state machine over its own       *)
(* variables.  One specification per component:                            *)
(*   SpecRetry   RetrySafeAuthorizer.authorize_with_retry                  *)
(*   SpecTrust   TrustMonitor.update_trust_level / evaluate_trust_level    *)
(*   SpecDecide  check_permission, check_all, authorize_operation          *)
(*   SpecAudit   ResilientAuditService.log_operation and its caller        *)
(*   SpecClassify  TrustMonitor.evaluate_trust_level of a metrics snapshot *)
(*   SpecChecker   InvariantChecker.check_all on the contexts it is given  *)
(***************************************************************************)
EXTENDS Integers, Sequences, FiniteSets, TLC

VARIABLES
    utcnow,          \* datetime.utcnow(), in minutes
    auth_service,    \* the privilege set the authoritative source answers now
    token_store,     \* RetrySafeAuthorizer.token_store: token_id -> token
    call,            \* the arguments of the last authorize_with_retry call
    result,          \* the AuthResult of the last authorize_with_retry call
    time,            \* time.time(), in seconds
    current_level,   \* TrustMonitor.current_level
    level_enter_time,\* TrustMonitor.level_enter_time
    recent,          \* the levels the last evaluations computed, oldest first
    transitions,     \* transition events update_trust_level has emitted
    cache,           \* the cache backend: the entry it holds
    decision,        \* the last authorization decision and what it did
    primary_ok,      \* whether the primary audit sink accepts records now
    fallback_ok,     \* whether the fallback audit sink accepts records now
    primary_log,     \* the records the primary sink has accepted
    fallback_log,    \* the records the fallback sink has accepted
    data_store,      \* the data process_data has processed (its side effect)
    audit,           \* the last audited call and its outcome
    collected,       \* the TrustMetrics snapshot collected last
    classified,      \* the level computed from it ("" before the evaluation)
    check_context,   \* the context handed to InvariantChecker.check_all
    check_outcome,   \* what that check_all call did
    in_flight,       \* per caller: the authorize_with_retry call it is inside
    run              \* one execute_with_retry_safe_auth call: its locals

retryVars == <<utcnow, auth_service, token_store, call, result>>
trustVars == <<time, current_level, level_enter_time, recent, transitions>>

decideVars == <<cache, decision>>
auditVars == <<primary_ok, fallback_ok, primary_log, fallback_log, data_store, audit>>

classifyVars == <<collected, classified>>

checkerVars == <<check_context, check_outcome>>

concVars == <<in_flight>>

loopVars == <<run>>

vars == <<retryVars, trustVars, decideVars, auditVars, classifyVars, checkerVars,
          concVars, loopVars>>

\* ------------------------------------------------------------------ bounds

\* The clock of the token store stops here (minutes).
MaxTime == 5
\* How many chains (attempt-0 calls) a run starts.
MaxTokens == 1
\* The clock of the trust monitor stops here (seconds).
MaxClock == 60
\* How many records each audit sink holds, and how many calls process data.
MaxRecords == 1
MaxProcessed == 2
\* How many chains the concurrent callers start.
MaxChains == 2

\* ------------------------------------------------- retry-safe authorization

\* timedelta(minutes=5)
TokenTTL == 5
\* for attempt in range(3)
max_attempts == 3

\* The subjects that start chains; "mallory" is the subject that does not.
Subjects == {"alice"}
Resources == {"doc"}
Operations == {"read"}
\* The privilege sets the authoritative source answers with.
SourceGrants == SUBSET {"read", "write"}

\* previous_token=None, and the token field of a denial.
NoToken ==
    [token_id |-> 0, user_id |-> "", resource_id |-> "", operation |-> "",
     privileges |-> {}, granted_at |-> 0, expires_at |-> 0]

AuthorizationToken(id, user, resource, operation, privileges, granted, expires) ==
    [token_id |-> id, user_id |-> user, resource_id |-> resource,
     operation |-> operation, privileges |-> privileges,
     granted_at |-> granted, expires_at |-> expires]

\* AuthorizationToken.is_valid: datetime.utcnow() < self.expires_at
is_valid(token, now) == now < token.expires_at

\* AuthResult(allowed, reason, token, privileges); an omitted token is NoToken
\* and omitted privileges are the empty set.
AuthResult(allowed, reason, token, privileges) ==
    [allowed |-> allowed, reason |-> reason, token |-> token,
     privileges |-> privileges]

\* self.token_store.get(token_id)
store_get(store, id) == IF id \in DOMAIN store THEN store[id] ELSE NoToken

\* generate_unique_id(): ids are handed out in order, never twice.
generate_unique_id(store) == Len(store) + 1

\* A retry that mints a fresh grant when the presented token is rejected.
authorize_with_retry_remint(store, source, now, user, resource, operation, attempt, previous_token) ==
    LET fresh == AuthorizationToken(generate_unique_id(store), user, resource,
                                    operation, source, now, now + TokenTTL)
        stored_token == store_get(store, previous_token.token_id)
        allowed_privileges == stored_token.privileges \cap source
    IN  IF attempt = 0 \/ previous_token = NoToken \/ ~is_valid(previous_token, now)
           \/ stored_token = NoToken
        THEN [store |-> Append(store, fresh),
              result |-> AuthResult(TRUE, "", fresh, source),
              queried |-> TRUE, warned |-> FALSE]
        ELSE [store |-> store,
              result |-> AuthResult(TRUE, "", stored_token, allowed_privileges),
              queried |-> TRUE,
              warned |-> allowed_privileges # stored_token.privileges]

\* A retry that treats narrowed privileges as a failure.
authorize_with_retry_narrowing_denied(store, source, now, user, resource, operation, attempt, previous_token) ==
    IF attempt = 0
    THEN LET token == AuthorizationToken(generate_unique_id(store), user, resource,
                                         operation, source, now, now + TokenTTL)
         IN  [store |-> Append(store, token),
              result |-> AuthResult(TRUE, "", token, source),
              queried |-> TRUE, warned |-> FALSE]
    ELSE IF previous_token = NoToken \/ ~is_valid(previous_token, now)
    THEN [store |-> store,
          result |-> AuthResult(FALSE, "Invalid or expired authorization token",
                                NoToken, {}),
          queried |-> FALSE, warned |-> FALSE]
    ELSE LET stored_token == store_get(store, previous_token.token_id)
             allowed_privileges == stored_token.privileges \cap source
         IN  IF stored_token = NoToken
             THEN [store |-> store,
                   result |-> AuthResult(FALSE, "Authorization token not found",
                                         NoToken, {}),
                   queried |-> FALSE, warned |-> FALSE]
             ELSE IF allowed_privileges # stored_token.privileges
             THEN [store |-> store,
                   result |-> AuthResult(FALSE, "Privileges changed during retry",
                                         NoToken, {}),
                   queried |-> TRUE, warned |-> TRUE]
             ELSE [store |-> store,
                   result |-> AuthResult(TRUE, "", stored_token, allowed_privileges),
                   queried |-> TRUE, warned |-> FALSE]

\* A retry that returns the source's current answer instead of its intersection
\* with the stored privileges.
authorize_with_retry_current_privileges(store, source, now, user, resource, operation, attempt, previous_token) ==
    IF attempt = 0
    THEN LET token == AuthorizationToken(generate_unique_id(store), user, resource,
                                         operation, source, now, now + TokenTTL)
         IN  [store |-> Append(store, token),
              result |-> AuthResult(TRUE, "", token, source),
              queried |-> TRUE, warned |-> FALSE]
    ELSE IF previous_token = NoToken \/ ~is_valid(previous_token, now)
    THEN [store |-> store,
          result |-> AuthResult(FALSE, "Invalid or expired authorization token",
                                NoToken, {}),
          queried |-> FALSE, warned |-> FALSE]
    ELSE LET stored_token == store_get(store, previous_token.token_id)
             allowed_privileges == source
         IN  IF stored_token = NoToken
             THEN [store |-> store,
                   result |-> AuthResult(FALSE, "Authorization token not found",
                                         NoToken, {}),
                   queried |-> FALSE, warned |-> FALSE]
             ELSE [store |-> store,
                   result |-> AuthResult(TRUE, "", stored_token, allowed_privileges),
                   queried |-> TRUE,
                   warned |-> allowed_privileges # stored_token.privileges]

\* A retry that writes the narrowed privileges back into the stored token and
\* returns the rewritten token.
authorize_with_retry_narrows_stored(store, source, now, user, resource, operation, attempt, previous_token) ==
    IF attempt = 0
    THEN LET token == AuthorizationToken(generate_unique_id(store), user, resource,
                                         operation, source, now, now + TokenTTL)
         IN  [store |-> Append(store, token),
              result |-> AuthResult(TRUE, "", token, source),
              queried |-> TRUE, warned |-> FALSE]
    ELSE IF previous_token = NoToken \/ ~is_valid(previous_token, now)
    THEN [store |-> store,
          result |-> AuthResult(FALSE, "Invalid or expired authorization token",
                                NoToken, {}),
          queried |-> FALSE, warned |-> FALSE]
    ELSE LET stored_token == store_get(store, previous_token.token_id)
             allowed_privileges == stored_token.privileges \cap source
         IN  IF stored_token = NoToken
             THEN [store |-> store,
                   result |-> AuthResult(FALSE, "Authorization token not found",
                                         NoToken, {}),
                   queried |-> FALSE, warned |-> FALSE]
             ELSE LET narrowed == [stored_token EXCEPT !.privileges = allowed_privileges]
                  IN  [store |-> [store EXCEPT ![stored_token.token_id] = narrowed],
                       result |-> AuthResult(TRUE, "", narrowed, allowed_privileges),
                       queried |-> TRUE,
                       warned |-> allowed_privileges # stored_token.privileges]

\* RetrySafeAuthorizer.authorize_with_retry.  `source` is what
\* auth_service.get_privileges answers if it is asked; the value tells the new
\* store, the AuthResult, whether the source was asked and whether
\* security_log.warning was called.
authorize_with_retry(store, source, now, user, resource, operation, attempt, previous_token) ==
    IF attempt = 0
    THEN LET token == AuthorizationToken(generate_unique_id(store), user, resource,
                                         operation, source, now, now + TokenTTL)
         IN  [store |-> Append(store, token),
              result |-> AuthResult(TRUE, "", token, source),
              queried |-> TRUE, warned |-> FALSE]
    ELSE IF previous_token = NoToken \/ ~is_valid(previous_token, now)
    THEN [store |-> store,
          result |-> AuthResult(FALSE, "Invalid or expired authorization token",
                                NoToken, {}),
          queried |-> FALSE, warned |-> FALSE]
    ELSE LET stored_token == store_get(store, previous_token.token_id)
             allowed_privileges == stored_token.privileges \cap source
         IN  IF stored_token = NoToken
             THEN [store |-> store,
                   result |-> AuthResult(FALSE, "Authorization token not found",
                                         NoToken, {}),
                   queried |-> FALSE, warned |-> FALSE]
             ELSE [store |-> store,
                   result |-> AuthResult(TRUE, "", stored_token, allowed_privileges),
                   queried |-> TRUE,
                   warned |-> allowed_privileges # stored_token.privileges]

\* What a caller can present for a stored token: the token itself, or the token
\* with one bound field altered and the id kept.
Tampered(t) ==
    {t,
     [t EXCEPT !.user_id = "mallory"],
     [t EXCEPT !.resource_id = "vault"],
     [t EXCEPT !.operation = "write"],
     [t EXCEPT !.privileges = IF "write" \in t.privileges
                                THEN t.privileges \ {"write"}
                                ELSE t.privileges \cup {"write"}],
     [t EXCEPT !.granted_at = t.granted_at + 1],
     [t EXCEPT !.expires_at = t.expires_at + TokenTTL],
     [t EXCEPT !.expires_at = t.granted_at]}

\* The token whose id the store has not issued yet.
UnknownToken(store) ==
    AuthorizationToken(generate_unique_id(store), "mallory", "doc", "read",
                       {"read"}, 0, MaxTime + 1)

Request(user, resource, operation, previous_token) ==
    [user |-> user, resource |-> resource, operation |-> operation,
     previous_token |-> previous_token]

\* The retries a caller can make: the subject a token was minted for presents
\* it, genuine or tampered, for the request it was minted for; another subject
\* presents the genuine token; and a caller presents no token, or a token the
\* store never issued.
RetryCalls(store) ==
    UNION {{Request(store[i].user_id, store[i].resource_id, store[i].operation, t)
               : t \in Tampered(store[i])} : i \in DOMAIN store}
    \cup {Request("mallory", store[i].resource_id,
                   store[i].operation, store[i]) : i \in DOMAIN store}
    \cup {Request("mallory", "doc", "read", NoToken),
          Request("mallory", "doc", "read", UnknownToken(store))}

\* The attempt number the caller's retry loop passes: one more than the
\* attempt whose token it presents, 1 when it presents anything else; the loop
\* makes max_attempts attempts, numbered from 0.
NextAttempt(last_call, last_result, previous_token) ==
    IF /\ last_result.allowed
       /\ previous_token # NoToken
       /\ previous_token = last_result.token
       /\ last_call.attempt + 1 < max_attempts
    THEN last_call.attempt + 1
    ELSE 1

NoCall ==
    [attempt |-> 0, user |-> "", resource |-> "", operation |-> "",
     previous_token |-> NoToken, queried |-> FALSE, warned |-> FALSE]

Call(attempt, user, resource, operation, previous_token, out) ==
    [attempt |-> attempt, user |-> user, resource |-> resource,
     operation |-> operation, previous_token |-> previous_token,
     queried |-> out.queried, warned |-> out.warned]

RetryInit ==
    /\ utcnow = 0
    /\ auth_service = {"read", "write"}
    /\ token_store = <<>>
    /\ call = NoCall
    /\ result = AuthResult(FALSE, "", NoToken, {})

\* Time passes.
Tick ==
    /\ utcnow < MaxTime
    /\ utcnow' = utcnow + 1
    /\ UNCHANGED <<auth_service, token_store, call, result>>

\* The authoritative source changes its answer (grant or revocation).
SourceChanges ==
    /\ \E p \in SourceGrants : p # auth_service /\ auth_service' = p
    /\ UNCHANGED <<utcnow, token_store, call, result>>

\* authorize_with_retry(user, resource, operation, attempt=0)
AuthorizeFirst ==
    /\ Len(token_store) < MaxTokens
    /\ \E user \in Subjects, resource \in Resources, operation \in Operations :
         LET out == authorize_with_retry(token_store, auth_service, utcnow, user,
                                         resource, operation, 0, NoToken)
         IN  /\ token_store' = out.store
             /\ result' = out.result
             /\ call' = Call(0, user, resource, operation, NoToken, out)
    /\ UNCHANGED <<utcnow, auth_service>>

\* authorize_with_retry(user, resource, operation, attempt>0, previous_token)
AuthorizeRetry ==
    /\ \E req \in RetryCalls(token_store) :
         LET attempt == NextAttempt(call, result, req.previous_token)
             out == authorize_with_retry(token_store, auth_service, utcnow, req.user,
                                         req.resource, req.operation, attempt,
                                         req.previous_token)
         IN  /\ token_store' = out.store
             /\ result' = out.result
             /\ call' = Call(attempt, req.user, req.resource, req.operation,
                             req.previous_token, out)
    /\ UNCHANGED <<utcnow, auth_service>>

RetryNext ==
    \/ Tick /\ UNCHANGED <<trustVars, decideVars, auditVars, classifyVars, checkerVars, concVars, loopVars>>
    \/ SourceChanges /\ UNCHANGED <<trustVars, decideVars, auditVars, classifyVars, checkerVars, concVars, loopVars>>
    \/ AuthorizeFirst /\ UNCHANGED <<trustVars, decideVars, auditVars, classifyVars, checkerVars, concVars, loopVars>>
    \/ AuthorizeRetry /\ UNCHANGED <<trustVars, decideVars, auditVars, classifyVars, checkerVars, concVars, loopVars>>

\* ------------------------------------- concurrent authorize_with_retry calls

\* The requests that are inside authorize_with_retry at the same time.
Callers == {"c1", "c2", "c3"}

\* What a caller stands at: no call, a call that has returned and whose
\* result the caller holds, an abandoned call, or the statement its call
\* executes next.
Free == {"idle", "abandoned"}
Midway == {"mint", "lookup", "get_privileges"}

\* The locals of one call.  `privileges` is the answer of get_privileges that
\* attempt 0 holds before it builds the token.
InFlight(pc, attempt, user, resource, operation, previous_token, stored_token, privileges, auth_result) ==
    [pc |-> pc, attempt |-> attempt, user |-> user, resource |-> resource,
     operation |-> operation, previous_token |-> previous_token,
     stored_token |-> stored_token, privileges |-> privileges,
     result |-> auth_result]

NoResult == AuthResult(FALSE, "", NoToken, {})

NoRequest == InFlight("idle", 0, "", "", "", NoToken, NoToken, {}, NoResult)

\* The retries present the token of one chain, the first that stored its
\* token; the other chains make their attempt 0 meanwhile.  A caller that got
\* no token presents nothing.
Presented(store) == {store[i] : i \in DOMAIN store \cap {1}} \cup {NoToken}

\* A retry that writes the source's current answer into the stored token and
\* returns it.
retry_return_refreshes_token(store, stored_token, current_privileges) ==
    LET refreshed == [stored_token EXCEPT !.privileges = current_privileges]
    IN  [store |-> [store EXCEPT ![stored_token.token_id] = refreshed],
         result |-> AuthResult(TRUE, "", refreshed, current_privileges)]

\* The end of a retry: the intersection of the stored and the current
\* privileges is returned with the stored token; the store is not written.
retry_return(store, stored_token, current_privileges) ==
    LET allowed_privileges == stored_token.privileges \cap current_privileges
    IN  [store |-> store,
         result |-> AuthResult(TRUE, "", stored_token, allowed_privileges)]

ConcInit == in_flight = [p \in Callers |-> NoRequest]

\* No caller holds a result it has not taken yet.  A call returns when the
\* result of the call that returned before it has been taken.
NoneReturned == \A q \in Callers : in_flight[q].pc # "done"

\* Attempt 0 starts and asks the authoritative source.
BeginFirst(p) ==
    /\ in_flight[p].pc \in Free
    /\ Len(token_store) + Cardinality({q \in Callers : in_flight[q].pc = "mint"})
          < MaxChains
    /\ \E user \in Subjects, resource \in Resources, operation \in Operations :
         in_flight' = [in_flight EXCEPT ![p] =
                          InFlight("mint", 0, user, resource, operation, NoToken,
                                   NoToken, auth_service, NoResult)]
    /\ UNCHANGED retryVars

\* Attempt 0 builds the token under an id no other call holds, stores it and
\* returns.
MintAndStore(p) ==
    /\ in_flight[p].pc = "mint"
    /\ NoneReturned
    /\ LET c == in_flight[p]
           token == AuthorizationToken(generate_unique_id(token_store), c.user,
                                       c.resource, c.operation, c.privileges,
                                       utcnow, utcnow + TokenTTL)
       IN  /\ token_store' = Append(token_store, token)
           /\ in_flight' = [in_flight EXCEPT ![p] =
                               InFlight("done", 0, c.user, c.resource, c.operation,
                                        NoToken, NoToken, {},
                                        AuthResult(TRUE, "", token, c.privileges))]
    /\ UNCHANGED <<utcnow, auth_service, call, result>>

\* A retry starts and validates the token it was handed.  The call takes the
\* same path for every attempt > 0; the callers pass attempt = 1.
BeginRetry(p) ==
    /\ in_flight[p].pc \in Free
    /\ NoneReturned
    /\ \E previous_token \in Presented(token_store),
          user \in Subjects, resource \in Resources, operation \in Operations :
         LET attempt == 1 IN
         in_flight' = [in_flight EXCEPT ![p] =
            IF previous_token = NoToken \/ ~is_valid(previous_token, utcnow)
            THEN InFlight("done", attempt, user, resource, operation,
                          previous_token, NoToken, {},
                          AuthResult(FALSE, "Invalid or expired authorization token",
                                     NoToken, {}))
            ELSE InFlight("lookup", attempt, user, resource, operation,
                          previous_token, NoToken, {}, NoResult)]
    /\ UNCHANGED retryVars

\* The retry reads the stored token of the presented id.
Lookup(p) ==
    /\ in_flight[p].pc = "lookup"
    /\ NoneReturned
    /\ LET c == in_flight[p]
           stored_token == store_get(token_store, c.previous_token.token_id)
       IN  in_flight' = [in_flight EXCEPT ![p] =
              IF stored_token = NoToken
              THEN InFlight("done", c.attempt, c.user, c.resource, c.operation,
                            c.previous_token, NoToken, {},
                            AuthResult(FALSE, "Authorization token not found",
                                       NoToken, {}))
              ELSE InFlight("get_privileges", c.attempt, c.user, c.resource,
                            c.operation, c.previous_token, stored_token, {},
                            NoResult)]
    /\ UNCHANGED retryVars

\* The retry asks the authoritative source and returns.
GetPrivilegesAndReturn(p) ==
    /\ in_flight[p].pc = "get_privileges"
    /\ NoneReturned
    /\ LET c == in_flight[p]
           out == retry_return(token_store, c.stored_token, auth_service)
       IN  /\ token_store' = out.store
           /\ in_flight' = [in_flight EXCEPT ![p] =
                               InFlight("done", c.attempt, c.user, c.resource,
                                        c.operation, c.previous_token, NoToken, {},
                                        out.result)]
    /\ UNCHANGED <<utcnow, auth_service, call, result>>

\* The request is cancelled inside the call: the call runs no further
\* statement and returns nothing.
Abandon(p) ==
    /\ in_flight[p].pc \in Midway
    /\ LET c == in_flight[p]
       IN  in_flight' = [in_flight EXCEPT ![p] =
                            InFlight("abandoned", c.attempt, c.user, c.resource,
                                     c.operation, c.previous_token, NoToken, {},
                                     NoResult)]
    /\ UNCHANGED retryVars

\* The caller takes the result of its call.
TakeResult(p) ==
    /\ in_flight[p].pc = "done"
    /\ in_flight' = [in_flight EXCEPT ![p] = NoRequest]
    /\ UNCHANGED retryVars

ConcNext ==
    \/ SourceChanges /\ UNCHANGED <<trustVars, decideVars, auditVars, classifyVars, checkerVars, concVars, loopVars>>
    \/ \E p \in Callers : BeginFirst(p) /\ UNCHANGED <<trustVars, decideVars, auditVars, classifyVars, checkerVars, loopVars>>
    \/ \E p \in Callers : MintAndStore(p) /\ UNCHANGED <<trustVars, decideVars, auditVars, classifyVars, checkerVars, loopVars>>
    \/ \E p \in Callers : BeginRetry(p) /\ UNCHANGED <<trustVars, decideVars, auditVars, classifyVars, checkerVars, loopVars>>
    \/ \E p \in Callers : Lookup(p) /\ UNCHANGED <<trustVars, decideVars, auditVars, classifyVars, checkerVars, loopVars>>
    \/ \E p \in Callers : GetPrivilegesAndReturn(p) /\ UNCHANGED <<trustVars, decideVars, auditVars, classifyVars, checkerVars, loopVars>>
    \/ \E p \in Callers : Abandon(p) /\ UNCHANGED <<trustVars, decideVars, auditVars, classifyVars, checkerVars, loopVars>>
    \/ \E p \in Callers : TakeResult(p) /\ UNCHANGED <<trustVars, decideVars, auditVars, classifyVars, checkerVars, loopVars>>

\* A retry of caller p has returned allowed=true.
RetryAllowed(c) == c.pc = "done" /\ c.attempt > 0 /\ c.result.allowed

\* C27: however retries that present one token id interleave with each other,
\* with changes of the authoritative source and with attempt-0 calls of other
\* chains, every stored token stays as its attempt 0 wrote it, every retry that
\* returns allowed=true returns that token and privileges within its
\* privileges, and abandoning a call midway changes neither the store nor the
\* call of another caller.
C27_ConcurrentRetriesWithinAttemptZero ==
    [][/\ \A id \in DOMAIN token_store :
            id \in DOMAIN token_store' /\ token_store'[id] = token_store[id]
       /\ \A p \in Callers :
            RetryAllowed(in_flight'[p]) =>
               LET id == in_flight'[p].previous_token.token_id
               IN  /\ id \in DOMAIN token_store'
                   /\ in_flight'[p].result.token = token_store'[id]
                   /\ in_flight'[p].result.privileges
                         \subseteq token_store'[id].privileges
       /\ \A p \in Callers :
            (in_flight[p].pc \in Midway /\ in_flight'[p].pc = "abandoned") =>
               /\ token_store' = token_store
               /\ \A q \in Callers \ {p} : in_flight'[q] = in_flight[q]]_vars

\* A retry of token 1 has returned fewer privileges than the token holds while
\* a second retry of token 1 is between its two reads, a third retry of token 1
\* was abandoned, and another chain has stored its token.
C27_Witness ==
    \E p, q, r \in Callers :
       /\ RetryAllowed(in_flight[p])
       /\ in_flight[p].previous_token.token_id = 1
       /\ in_flight[p].result.privileges # token_store[1].privileges
       /\ in_flight[q].pc = "get_privileges"
       /\ in_flight[q].previous_token.token_id = 1
       /\ in_flight[r].pc = "abandoned" /\ in_flight[r].attempt > 0
       /\ in_flight[r].previous_token.token_id = 1
       /\ Len(token_store) = MaxChains

\* --------------------------------------------- execute_with_retry_safe_auth

\* The values of max_attempts a caller passes; the default is max_attempts.
AttemptLimits == 0 .. max_attempts

\* The locals of one execute_with_retry_safe_auth call, and what it has done:
\* `asked` and `presented` are the attempt and previous_token arguments of the
\* last authorize_with_retry call, `attempts` counts those calls, `transients`
\* the TransientErrors caught, `executed_with` is the privileges argument of
\* the operation.execute call that returned, and `outcome` is how the function
\* ended: "returned" (line 20), "PermissionDenied" (line 16), "TransientError"
\* (line 26), or "None" when the loop ends without either.
NotStarted ==
    [pc |-> "idle", max_attempts |-> 0, attempt |-> 0, auth_token |-> NoToken,
     auth_result |-> NoResult, asked |-> 0, presented |-> NoToken,
     attempts |-> 0, transients |-> 0, executed_with |-> {}, outcome |-> ""]

\* for attempt in range(max_attempts): the loop body runs for k if k is in the
\* range; past the range the function ends without a return statement.
for_attempt(r, k) ==
    IF k < r.max_attempts
    THEN [r EXCEPT !.pc = "try", !.attempt = k]
    ELSE [r EXCEPT !.pc = "done", !.outcome = "None"]

\* A handler that also continues after the last attempt.
except_TransientError_continues_last(r) ==
    LET caught == [r EXCEPT !.transients = @ + 1]
    IN  IF r.attempt <= r.max_attempts - 1
        THEN for_attempt(caught, r.attempt + 1)
        ELSE [caught EXCEPT !.pc = "done", !.outcome = "TransientError"]

\* except TransientError: continue before the last attempt, re-raise at it.
except_TransientError(r) ==
    LET caught == [r EXCEPT !.transients = @ + 1]
    IN  IF r.attempt < r.max_attempts - 1
        THEN for_attempt(caught, r.attempt + 1)
        ELSE [caught EXCEPT !.pc = "done", !.outcome = "TransientError"]

\* The authorize_with_retry call of the current attempt.
authorize_attempt(r, store, source, now) ==
    authorize_with_retry(store, source, now, "alice", "doc", "read", r.attempt,
                         r.auth_token)

\* The call has been made with r's arguments.
Asked(r) ==
    [r EXCEPT !.asked = r.attempt, !.presented = r.auth_token,
              !.attempts = @ + 1]

LoopInit == run = NotStarted

\* execute_with_retry_safe_auth(operation, max_attempts) is called.
ExecuteWithRetrySafeAuth ==
    /\ run.pc = "idle"
    /\ \E limit \in AttemptLimits :
         run' = for_attempt([NotStarted EXCEPT !.max_attempts = limit], 0)
    /\ UNCHANGED retryVars

\* authorize_with_retry returns: a denial raises PermissionDenied, which no
\* handler of the function catches; otherwise the token is kept and the
\* operation is executed next.
AuthorizeReturns ==
    /\ run.pc = "try"
    /\ LET out == authorize_attempt(run, token_store, auth_service, utcnow)
           asked == [Asked(run) EXCEPT !.auth_result = out.result]
       IN  /\ token_store' = out.store
           /\ run' = IF ~out.result.allowed
                     THEN [asked EXCEPT !.pc = "done", !.outcome = "PermissionDenied"]
                     ELSE [asked EXCEPT !.auth_token = out.result.token,
                                        !.pc = "execute"]
    /\ UNCHANGED <<utcnow, auth_service, call, result>>

\* authorize_with_retry raises TransientError: the authoritative source, when
\* the call asks it, does not answer.
AuthorizeRaises ==
    /\ run.pc = "try"
    /\ authorize_attempt(run, token_store, auth_service, utcnow).queried
    /\ run' = except_TransientError(Asked(run))
    /\ UNCHANGED retryVars

\* operation.execute(privileges=auth_result.privileges) returns.
ExecuteReturns ==
    /\ run.pc = "execute"
    /\ run' = [run EXCEPT !.pc = "done", !.outcome = "returned",
                          !.executed_with = run.auth_result.privileges]
    /\ UNCHANGED retryVars

\* operation.execute raises TransientError.
ExecuteRaises ==
    /\ run.pc = "execute"
    /\ run' = except_TransientError(run)
    /\ UNCHANGED retryVars

LoopNext ==
    \/ Tick /\ UNCHANGED <<trustVars, decideVars, auditVars, classifyVars, checkerVars, concVars, loopVars>>
    \/ SourceChanges /\ UNCHANGED <<trustVars, decideVars, auditVars, classifyVars, checkerVars, concVars, loopVars>>
    \/ ExecuteWithRetrySafeAuth /\ UNCHANGED <<trustVars, decideVars, auditVars, classifyVars, checkerVars, concVars>>
    \/ AuthorizeReturns /\ UNCHANGED <<trustVars, decideVars, auditVars, classifyVars, checkerVars, concVars>>
    \/ AuthorizeRaises /\ UNCHANGED <<trustVars, decideVars, auditVars, classifyVars, checkerVars, concVars>>
    \/ ExecuteReturns /\ UNCHANGED <<trustVars, decideVars, auditVars, classifyVars, checkerVars, concVars>>
    \/ ExecuteRaises /\ UNCHANGED <<trustVars, decideVars, auditVars, classifyVars, checkerVars, concVars>>

\* The function has ended in one of the three ways: it returned what
\* operation.execute returned, run with the privileges of an allowed result; it
\* raised PermissionDenied for a result that was not allowed; or it re-raised
\* the TransientError of the last attempt.
OneOfThreeOutcomes(r) ==
    \/ /\ r.outcome = "returned"
       /\ r.auth_result.allowed
       /\ r.executed_with = r.auth_result.privileges
    \/ /\ r.outcome = "PermissionDenied"
       /\ ~r.auth_result.allowed
    \/ /\ r.outcome = "TransientError"
       /\ r.attempt = r.max_attempts - 1
       /\ r.transients > 0

\* The token the attempts so far have obtained: the token of the last result,
\* none before the first result.
TokenSoFar(r) == IF r.auth_result.allowed THEN r.auth_result.token ELSE NoToken

\* What every step of the function keeps to: at most max_attempts
\* authorization attempts; a result that is not allowed ends the function at
\* once with PermissionDenied; a TransientError before the last attempt is
\* followed by the next attempt; every authorization call passes the number
\* of its attempt and the token obtained so far.
RetryDiscipline ==
    /\ run'.attempts <= run'.max_attempts
    /\ (run'.attempts > 0 /\ ~run'.auth_result.allowed /\ run'.transients = run.transients
          /\ run'.attempts = run.attempts + 1) =>
          (run'.pc = "done" /\ run'.outcome = "PermissionDenied")
    /\ run'.outcome = "PermissionDenied" => ~run'.auth_result.allowed
    /\ (run'.transients = run.transients + 1 /\ run.attempt < run.max_attempts - 1) =>
          (run'.pc = "try" /\ run'.attempt = run.attempt + 1)
    /\ run'.attempts = run.attempts + 1 =>
          (run'.asked = run.attempt /\ run'.presented = TokenSoFar(run))

\* C29 as stated: for every max_attempts the function makes at most
\* max_attempts authorization attempts and ends in exactly one of three ways
\* (the result of operation.execute run with the privileges of an allowed
\* result, PermissionDenied at the first result that is not allowed, or the
\* TransientError of the last attempt), and a TransientError before the last
\* attempt is followed by the next attempt carrying the token obtained so far.
C29_ThreeOutcomesForEveryLimit ==
    [][/\ RetryDiscipline
       /\ run'.pc = "done" => OneOfThreeOutcomes(run')]_vars

\* C29 amended: the same for max_attempts >= 1; with max_attempts <= 0 the
\* function makes no authorization attempt and ends without returning a value
\* or raising.
C29_ThreeOutcomesForPositiveLimit ==
    [][/\ RetryDiscipline
       /\ run'.pc = "done" =>
            IF run'.max_attempts >= 1
            THEN OneOfThreeOutcomes(run')
            ELSE run'.outcome = "None" /\ run'.attempts = 0]_vars

\* The third attempt of a call with max_attempts = 3 has returned after two
\* TransientErrors, and it presented the token attempt 0 had stored.
C29_Witness ==
    /\ run.pc = "done" /\ run.outcome = "returned"
    /\ run.max_attempts = 3 /\ run.attempts = 3 /\ run.transients = 2
    /\ run.asked = 2
    /\ run.presented = token_store[1]

\* ------------------------------------------------------------ trust monitor

\* self.min_level_duration = 30
min_level_duration == 30
\* _confirm_degradation(new_level, samples=3)
samples == 3
\* scheduler.add_job(trust_monitor.update_trust_level, trigger='interval', seconds=10)
interval_seconds == 10

TrustLevel == {"NORMAL", "DEGRADED", "CONSTRAINED", "NO_TRUST"}

\* TrustLevel.<name>.value
TrustLevelValue(level) ==
    CASE level = "NORMAL" -> 4
      [] level = "DEGRADED" -> 3
      [] level = "CONSTRAINED" -> 2
      [] OTHER -> 1

TrustMetrics(auth_latency_p99, error_rate, cache_staleness) ==
    [auth_latency_p99 |-> auth_latency_p99, error_rate |-> error_rate,
     cache_staleness |-> cache_staleness]

\* The snapshots the monitor collects: from a healthy baseline, one metric at a
\* time takes a value below, at or above each of its thresholds.
MetricsSnapshots ==
    {TrustMetrics(l, 0, 0) : l \in {50, 200, 201, 2000, 2001, 10000, 10001}}
    \cup {TrustMetrics(50, e, 0) : e \in {0, 1, 2, 20, 21, 50, 51}}
    \cup {TrustMetrics(50, 0, c) : c \in {0, 300, 301, 1800, 1801}}

\* A classification whose thresholds are inclusive.
_compute_level_inclusive(metrics) ==
    IF \/ metrics.error_rate >= 50
       \/ metrics.auth_latency_p99 >= 10000
       \/ metrics.cache_staleness >= 1800
    THEN "NO_TRUST"
    ELSE IF \/ metrics.error_rate >= 20
            \/ metrics.auth_latency_p99 >= 2000
            \/ metrics.cache_staleness >= 300
    THEN "CONSTRAINED"
    ELSE IF \/ metrics.error_rate >= 1
            \/ metrics.auth_latency_p99 >= 200
    THEN "DEGRADED"
    ELSE "NORMAL"

\* The classification of a snapshot (evaluate_trust_level of the graduated
\* monitor, which the anti-flap monitor calls _compute_level).
_compute_level(metrics) ==
    IF \/ metrics.error_rate > 50
       \/ metrics.auth_latency_p99 > 10000
       \/ metrics.cache_staleness > 1800
    THEN "NO_TRUST"
    ELSE IF \/ metrics.error_rate > 20
            \/ metrics.auth_latency_p99 > 2000
            \/ metrics.cache_staleness > 300
    THEN "CONSTRAINED"
    ELSE IF \/ metrics.error_rate > 1
            \/ metrics.auth_latency_p99 > 200
    THEN "DEGRADED"
    ELSE "NORMAL"

\* The monitor remembers the levels of its last `n` evaluations.
_record_evaluation(history, new_level, n) ==
    LET all == Append(history, new_level)
    IN  IF Len(all) > n THEN SubSeq(all, Len(all) - n + 1, Len(all)) ELSE all

\* _confirm_degradation(new_level, samples): the last `n` evaluations, this one
\* included, all computed new_level.
_confirm_degradation(history, new_level, n) ==
    /\ Len(history) >= n
    /\ \A i \in (Len(history) - n + 1) .. Len(history) : history[i] = new_level

\* An anti-flap evaluation that applies a new level without waiting for the
\* minimum duration at the current one.
evaluate_trust_level_no_dwell(new_level, now, level, enter_time, history) ==
    IF new_level # level
    THEN IF /\ TrustLevelValue(new_level) < TrustLevelValue(level)
            /\ ~_confirm_degradation(history, new_level, samples)
         THEN [current_level |-> level, level_enter_time |-> enter_time]
         ELSE [current_level |-> new_level, level_enter_time |-> now]
    ELSE [current_level |-> level, level_enter_time |-> enter_time]

\* An anti-flap evaluation that applies a lower level on its first computation,
\* without asking for confirmations.
evaluate_trust_level_no_confirmation(new_level, now, level, enter_time, history) ==
    LET time_at_current == now - enter_time
    IN  IF new_level # level
        THEN IF time_at_current < min_level_duration
             THEN [current_level |-> level, level_enter_time |-> enter_time]
             ELSE [current_level |-> new_level, level_enter_time |-> now]
        ELSE [current_level |-> level, level_enter_time |-> enter_time]

\* An anti-flap evaluation that asks for the confirmations before it applies a
\* higher level too.
evaluate_trust_level_confirms_upgrades(new_level, now, level, enter_time, history) ==
    LET time_at_current == now - enter_time
    IN  IF new_level # level
        THEN IF time_at_current < min_level_duration
             THEN [current_level |-> level, level_enter_time |-> enter_time]
             ELSE IF ~_confirm_degradation(history, new_level, samples)
             THEN [current_level |-> level, level_enter_time |-> enter_time]
             ELSE [current_level |-> new_level, level_enter_time |-> now]
        ELSE [current_level |-> level, level_enter_time |-> enter_time]

\* TrustMonitor.evaluate_trust_level (anti-flap): the monitor's level and
\* level_enter_time after the call; the call returns the level.
evaluate_trust_level(new_level, now, level, enter_time, history) ==
    LET time_at_current == now - enter_time
    IN  IF new_level # level
        THEN IF time_at_current < min_level_duration
             THEN [current_level |-> level, level_enter_time |-> enter_time]
             ELSE IF /\ TrustLevelValue(new_level) < TrustLevelValue(level)
                     /\ ~_confirm_degradation(history, new_level, samples)
             THEN [current_level |-> level, level_enter_time |-> enter_time]
             ELSE [current_level |-> new_level, level_enter_time |-> now]
        ELSE [current_level |-> level, level_enter_time |-> enter_time]

TrustInit ==
    /\ time = 0
    /\ current_level = "NORMAL"
    /\ level_enter_time = 0
    /\ recent = <<>>
    /\ transitions = 0

\* The scheduler's interval passes.
ClockAdvances ==
    /\ time + interval_seconds <= MaxClock
    /\ time' = time + interval_seconds
    /\ UNCHANGED <<current_level, level_enter_time, recent, transitions>>

\* TrustMonitor.update_trust_level, with the anti-flap evaluate_trust_level.
update_trust_level ==
    /\ \E metrics \in MetricsSnapshots :
         LET computed == _compute_level(metrics)
             history == _record_evaluation(recent, computed, samples)
             after == evaluate_trust_level(computed, time, current_level,
                                           level_enter_time, history)
             \* new_level = self.evaluate_trust_level(metrics), which has already
             \* assigned self.current_level: the comparison below sees them equal.
             new_level == after.current_level
             differs == new_level # after.current_level
         IN  /\ recent' = history
             /\ level_enter_time' = after.level_enter_time
             /\ transitions' = IF differs THEN transitions + 1 ELSE transitions
             /\ current_level' = IF differs THEN new_level ELSE after.current_level
    /\ UNCHANGED time

TrustNext ==
    \/ ClockAdvances /\ UNCHANGED <<retryVars, decideVars, auditVars, classifyVars, checkerVars, concVars, loopVars>>
    \/ update_trust_level /\ UNCHANGED <<retryVars, decideVars, auditVars, classifyVars, checkerVars, concVars, loopVars>>

\* ------------------------------------------- classification of snapshots

\* The values a metric takes: below, at and above each of its thresholds.
LatencyValues == {50, 200, 201, 2000, 2001, 10000, 10001}
ErrorRateValues == {0, 1, 2, 20, 21, 50, 51}
StalenessValues == {0, 300, 301, 1800, 1801}

ClassifyInit ==
    /\ collected = TrustMetrics(50, 0, 0)
    /\ classified = ""

\* The metrics service reports a snapshot.
CollectMetrics ==
    /\ classified # ""
    /\ \E l \in LatencyValues, e \in ErrorRateValues, c \in StalenessValues :
         collected' = TrustMetrics(l, e, c)
    /\ classified' = ""

\* TrustMonitor.evaluate_trust_level(metrics) of graduated_trust_levels.py
ClassifySnapshot ==
    /\ classified = ""
    /\ classified' = _compute_level(collected)
    /\ UNCHANGED collected

ClassifyNext ==
    \/ CollectMetrics /\ UNCHANGED <<retryVars, trustVars, decideVars, auditVars, checkerVars, concVars, loopVars>>
    \/ ClassifySnapshot /\ UNCHANGED <<retryVars, trustVars, decideVars, auditVars, checkerVars, concVars, loopVars>>

\* C16: the level computed from a snapshot is NO_TRUST if error_rate > 50 or
\* latency_p99 > 10000 or staleness > 1800; otherwise CONSTRAINED if
\* error_rate > 20 or latency_p99 > 2000 or staleness > 300; otherwise DEGRADED
\* if error_rate > 1 or latency_p99 > 200; otherwise NORMAL.  A value at a
\* threshold does not trigger it.
C16_ClassificationByThresholds ==
    classified # "" =>
        LET e == collected.error_rate
            l == collected.auth_latency_p99
            c == collected.cache_staleness
        IN  /\ classified = "NO_TRUST" <=> (e >= 51 \/ l >= 10001 \/ c >= 1801)
            /\ classified = "CONSTRAINED" <=>
                  (/\ e <= 50 /\ l <= 10000 /\ c <= 1800
                   /\ (e >= 21 \/ l >= 2001 \/ c >= 301))
            /\ classified = "DEGRADED" <=>
                  (/\ e <= 20 /\ l <= 2000 /\ c <= 300
                   /\ (e >= 2 \/ l >= 201))
            /\ classified = "NORMAL" <=> (e <= 1 /\ l <= 200 /\ c <= 300)

\* A snapshot with every metric at its lowest threshold has been classified
\* NORMAL.
C16_Witness ==
    /\ collected = TrustMetrics(200, 1, 300)
    /\ classified = "NORMAL"

\* ------------------------------------------------- trust-aware decisions

Privileges == {"read", "write", "delete", "admin", "share"}

\* TrustMonitor.get_allowed_privileges
get_allowed_privileges(trust_level) ==
    IF trust_level = "NORMAL" THEN {"read", "write", "delete", "admin", "share"}
    ELSE IF trust_level = "DEGRADED" THEN {"read", "write", "share"}
    ELSE IF trust_level = "CONSTRAINED" THEN {"read"}
    ELSE {}

\* The resources of a request, and resource.is_public.
DecideResources == {"public_doc", "private_doc"}
is_public(resource) == resource = "public_doc"

\* The operations requested are named like the privileges.
RequestedOperations == Privileges

\* The privilege sets the authorization backend grants.
GrantSets == {{"read"}, {"read", "write"}, {"read", "write", "delete"}}

\* The AuthResult of the decision path: privileges default to the empty set,
\* age_seconds is the age of the grant (0 when it was made by this call).
PermissionResult(allowed, reason, privileges, age_seconds) ==
    [allowed |-> allowed, reason |-> reason, privileges |-> privileges,
     age_seconds |-> age_seconds]

\* What auth_service.check does when called: it raises TimeoutError, denies, or
\* grants a privilege set.
BackendAnswers ==
    {[timeout |-> TRUE, result |-> PermissionResult(FALSE, "", {}, 0)],
     [timeout |-> FALSE, result |-> PermissionResult(FALSE, "denied by backend", {}, 0)]}
    \cup {[timeout |-> FALSE, result |-> PermissionResult(TRUE, "", g, 0)] : g \in GrantSets}

\* f"auth:{user}:{resource}:{operation}"
cache_key(user, resource, operation) == <<"auth", user, resource, operation>>

\* The cache backend keeps the entry written last; it may drop it at any time.
NoEntry == [key |-> <<>>, value |-> PermissionResult(FALSE, "", {}, 0)]

\* cache.get(key): the cached AuthResult, or None (found = FALSE).
cache_get(c, key) ==
    IF c.key = key THEN [found |-> TRUE, value |-> c.value]
    ELSE [found |-> FALSE, value |-> NoEntry.value]

\* cache.set(key, value, ttl)
cache_set(c, key, value) == [key |-> key, value |-> value]

\* The ages a cached grant is seen at: around the 60 s and the 300 s limits.
AgePoints == {0, 59, 60, 61, 299, 300, 301}

\* What a check_permission call returns and does; timed_out tells whether
\* auth_service.check raised TimeoutError in it.
Effects(auth_result, c, backend_calls, cache_reads, cache_writes, timed_out) ==
    [result |-> auth_result, cache |-> c, backend_calls |-> backend_calls,
     cache_reads |-> cache_reads, cache_writes |-> cache_writes,
     timed_out |-> timed_out]

\* f"Operation '{operation}' not permitted at trust level {trust_level.name}"
NotPermittedReason(operation, trust_level) ==
    "Operation '" \o operation \o "' not permitted at trust level " \o trust_level

TimeoutReason == "Authorization service timeout, no valid cache"
InsufficientReason == "Insufficient trust level for authorization"

\* A check_permission that handles NO_TRUST like DEGRADED: no operation gate
\* and no public-resource branch for it.
check_permission_no_trust_as_degraded(trust_level, user, resource, operation, backend, c) ==
    LET allowed_operations == get_allowed_privileges(trust_level)
        key == cache_key(user, resource, operation)
        cached == cache_get(c, key)
    IN  IF trust_level # "NO_TRUST" /\ operation \notin allowed_operations
        THEN Effects(PermissionResult(FALSE, NotPermittedReason(operation, trust_level), {}, 0),
                     c, 0, 0, 0, FALSE)
        ELSE IF trust_level \in {"NORMAL", "DEGRADED", "NO_TRUST"}
        THEN IF ~backend.timeout
             THEN Effects(backend.result, cache_set(c, key, backend.result), 1, 0, 1, FALSE)
             ELSE IF trust_level # "NORMAL" /\ operation = "read"
             THEN IF cached.found /\ cached.value.age_seconds < 300
                  THEN Effects(cached.value, c, 1, 1, 0, TRUE)
                  ELSE Effects(PermissionResult(FALSE, TimeoutReason, {}, 0),
                               c, 1, 1, 0, TRUE)
             ELSE Effects(PermissionResult(FALSE, TimeoutReason, {}, 0),
                          c, 1, 0, 0, TRUE)
        ELSE IF operation = "read"
             THEN IF cached.found /\ cached.value.age_seconds < 60
                  THEN Effects(cached.value, c, 0, 1, 0, FALSE)
                  ELSE Effects(PermissionResult(FALSE, InsufficientReason, {}, 0),
                               c, 0, 1, 0, FALSE)
             ELSE Effects(PermissionResult(FALSE, InsufficientReason, {}, 0),
                          c, 0, 0, 0, FALSE)

\* A check_permission that asks the backend before it tests the operation
\* against the level's privileges.
check_permission_gate_after_backend(trust_level, user, resource, operation, backend, c) ==
    LET allowed_operations == get_allowed_privileges(trust_level)
        key == cache_key(user, resource, operation)
        cached == cache_get(c, key)
    IN  IF operation \notin allowed_operations
        THEN IF trust_level \in {"NORMAL", "DEGRADED"} /\ ~backend.timeout
             THEN Effects(PermissionResult(FALSE, NotPermittedReason(operation, trust_level),
                                           {}, 0),
                          cache_set(c, key, backend.result), 1, 0, 1, FALSE)
             ELSE Effects(PermissionResult(FALSE, NotPermittedReason(operation, trust_level),
                                           {}, 0),
                          c, 1, 0, 0, backend.timeout)
        ELSE IF trust_level \in {"NORMAL", "DEGRADED"}
        THEN IF ~backend.timeout
             THEN Effects(backend.result, cache_set(c, key, backend.result), 1, 0, 1, FALSE)
             ELSE IF trust_level = "DEGRADED" /\ operation = "read"
             THEN IF cached.found /\ cached.value.age_seconds < 300
                  THEN Effects(cached.value, c, 1, 1, 0, TRUE)
                  ELSE Effects(PermissionResult(FALSE, TimeoutReason, {}, 0),
                               c, 1, 1, 0, TRUE)
             ELSE Effects(PermissionResult(FALSE, TimeoutReason, {}, 0),
                          c, 1, 0, 0, TRUE)
        ELSE IF trust_level = "CONSTRAINED"
        THEN IF operation = "read"
             THEN IF cached.found /\ cached.value.age_seconds < 60
                  THEN Effects(cached.value, c, 0, 1, 0, FALSE)
                  ELSE Effects(PermissionResult(FALSE, InsufficientReason, {}, 0),
                               c, 0, 1, 0, FALSE)
             ELSE Effects(PermissionResult(FALSE, InsufficientReason, {}, 0),
                          c, 0, 0, 0, FALSE)
        ELSE IF is_public(resource) /\ operation = "read"
             THEN Effects(PermissionResult(TRUE, "Public resource", {}, 0), c, 0, 0, 0, FALSE)
             ELSE Effects(PermissionResult(FALSE, "No trust - systems unavailable", {}, 0),
                          c, 0, 0, 0, FALSE)

\* A check_permission that answers from the cache after a timeout at NORMAL too,
\* whatever the age of the cached grant.
check_permission_any_cache_on_timeout(trust_level, user, resource, operation, backend, c) ==
    LET allowed_operations == get_allowed_privileges(trust_level)
        key == cache_key(user, resource, operation)
        cached == cache_get(c, key)
    IN  IF operation \notin allowed_operations
        THEN Effects(PermissionResult(FALSE, NotPermittedReason(operation, trust_level), {}, 0),
                     c, 0, 0, 0, FALSE)
        ELSE IF trust_level \in {"NORMAL", "DEGRADED"}
        THEN IF ~backend.timeout
             THEN Effects(backend.result, cache_set(c, key, backend.result), 1, 0, 1, FALSE)
             ELSE IF operation = "read"
             THEN IF cached.found
                  THEN Effects(cached.value, c, 1, 1, 0, TRUE)
                  ELSE Effects(PermissionResult(FALSE, TimeoutReason, {}, 0),
                               c, 1, 1, 0, TRUE)
             ELSE Effects(PermissionResult(FALSE, TimeoutReason, {}, 0),
                          c, 1, 0, 0, TRUE)
        ELSE IF trust_level = "CONSTRAINED"
        THEN IF operation = "read"
             THEN IF cached.found /\ cached.value.age_seconds < 60
                  THEN Effects(cached.value, c, 0, 1, 0, FALSE)
                  ELSE Effects(PermissionResult(FALSE, InsufficientReason, {}, 0),
                               c, 0, 1, 0, FALSE)
             ELSE Effects(PermissionResult(FALSE, InsufficientReason, {}, 0),
                          c, 0, 0, 0, FALSE)
        ELSE IF is_public(resource) /\ operation = "read"
             THEN Effects(PermissionResult(TRUE, "Public resource", {}, 0), c, 0, 0, 0, FALSE)
             ELSE Effects(PermissionResult(FALSE, "No trust - systems unavailable", {}, 0),
                          c, 0, 0, 0, FALSE)

\* A check_permission that attempts the fresh check at CONSTRAINED too.
check_permission_constrained_asks_backend(trust_level, user, resource, operation, backend, c) ==
    LET allowed_operations == get_allowed_privileges(trust_level)
        key == cache_key(user, resource, operation)
        cached == cache_get(c, key)
    IN  IF operation \notin allowed_operations
        THEN Effects(PermissionResult(FALSE, NotPermittedReason(operation, trust_level), {}, 0),
                     c, 0, 0, 0, FALSE)
        ELSE IF trust_level \in {"NORMAL", "DEGRADED", "CONSTRAINED"}
        THEN IF ~backend.timeout
             THEN Effects(backend.result, cache_set(c, key, backend.result), 1, 0, 1, FALSE)
             ELSE IF trust_level = "DEGRADED" /\ operation = "read"
             THEN IF cached.found /\ cached.value.age_seconds < 300
                  THEN Effects(cached.value, c, 1, 1, 0, TRUE)
                  ELSE Effects(PermissionResult(FALSE, TimeoutReason, {}, 0),
                               c, 1, 1, 0, TRUE)
             ELSE Effects(PermissionResult(FALSE, TimeoutReason, {}, 0),
                          c, 1, 0, 0, TRUE)
        ELSE IF trust_level = "CONSTRAINED"
        THEN IF operation = "read"
             THEN IF cached.found /\ cached.value.age_seconds < 60
                  THEN Effects(cached.value, c, 0, 1, 0, FALSE)
                  ELSE Effects(PermissionResult(FALSE, InsufficientReason, {}, 0),
                               c, 0, 1, 0, FALSE)
             ELSE Effects(PermissionResult(FALSE, InsufficientReason, {}, 0),
                          c, 0, 0, 0, FALSE)
        ELSE IF is_public(resource) /\ operation = "read"
             THEN Effects(PermissionResult(TRUE, "Public resource", {}, 0), c, 0, 0, 0, FALSE)
             ELSE Effects(PermissionResult(FALSE, "No trust - systems unavailable", {}, 0),
                          c, 0, 0, 0, FALSE)

\* TrustAwareAuthorizer.check_permission at the level read from the monitor.
\* `backend` is what auth_service.check does if it is called.  The value tells
\* the AuthResult, the cache afterwards, and how often the backend was called
\* and the cache read and written.
check_permission(trust_level, user, resource, operation, backend, c) ==
    LET allowed_operations == get_allowed_privileges(trust_level)
        key == cache_key(user, resource, operation)
        cached == cache_get(c, key)
    IN  IF operation \notin allowed_operations
        THEN Effects(PermissionResult(FALSE, NotPermittedReason(operation, trust_level), {}, 0),
                     c, 0, 0, 0, FALSE)
        ELSE IF trust_level \in {"NORMAL", "DEGRADED"}
        THEN IF ~backend.timeout
             THEN Effects(backend.result, cache_set(c, key, backend.result), 1, 0, 1, FALSE)
             ELSE IF trust_level = "DEGRADED" /\ operation = "read"
             THEN IF cached.found /\ cached.value.age_seconds < 300
                  THEN Effects(cached.value, c, 1, 1, 0, TRUE)
                  ELSE Effects(PermissionResult(FALSE, TimeoutReason, {}, 0),
                               c, 1, 1, 0, TRUE)
             ELSE Effects(PermissionResult(FALSE, TimeoutReason, {}, 0),
                          c, 1, 0, 0, TRUE)
        ELSE IF trust_level = "CONSTRAINED"
        THEN IF operation = "read"
             THEN IF cached.found /\ cached.value.age_seconds < 60
                  THEN Effects(cached.value, c, 0, 1, 0, FALSE)
                  ELSE Effects(PermissionResult(FALSE, InsufficientReason, {}, 0),
                               c, 0, 1, 0, FALSE)
             ELSE Effects(PermissionResult(FALSE, InsufficientReason, {}, 0),
                          c, 0, 0, 0, FALSE)
        ELSE IF is_public(resource) /\ operation = "read"
             THEN Effects(PermissionResult(TRUE, "Public resource", {}, 0), c, 0, 0, 0, FALSE)
             ELSE Effects(PermissionResult(FALSE, "No trust - systems unavailable", {}, 0),
                          c, 0, 0, 0, FALSE)

\* ------------------------------------------ runtime security invariants

\* The catalog of check_permission_with_invariants.py, in its order; the
\* severity is the one each invariant's constructor passes.
invariants ==
    <<[name |-> "PrivilegeBoundsInvariant", severity |-> "CRITICAL"],
      [name |-> "TemporalFreshnessInvariant", severity |-> "HIGH"],
      [name |-> "MonotonicRetryPrivilegesInvariant", severity |-> "CRITICAL"]>>

\* PrivilegeBoundsInvariant.check
PrivilegeBoundsInvariant(context) ==
    context.granted_privileges \subseteq get_allowed_privileges(context.trust_level)

\* TemporalFreshnessInvariant.check
TemporalFreshnessInvariant(context) ==
    LET max_age == [l \in TrustLevel |->
                      CASE l = "NORMAL" -> 3600
                        [] l = "DEGRADED" -> 1800
                        [] l = "CONSTRAINED" -> 300
                        [] OTHER -> 0]
    IN  context.auth_age_seconds <= max_age[context.trust_level]

\* MonotonicRetryPrivilegesInvariant.check
MonotonicRetryPrivilegesInvariant(context) ==
    IF context.attempt = 0 THEN TRUE
    ELSE context.current_privileges \subseteq context.original_privileges

\* invariant.check(context)
check(invariant, context) ==
    CASE invariant.name = "PrivilegeBoundsInvariant" -> PrivilegeBoundsInvariant(context)
      [] invariant.name = "TemporalFreshnessInvariant" -> TemporalFreshnessInvariant(context)
      [] OTHER -> MonotonicRetryPrivilegesInvariant(context)

\* What one check_all call has done so far.
NothingChecked ==
    [raised |-> FALSE, all_passed |-> TRUE, evaluated |-> <<>>, violations |-> {},
     alerts |-> 0]

\* The loop of a check_all that treats a CRITICAL violation like a MEDIUM one.
RECURSIVE check_from_never_raises(_, _, _, _)
check_from_never_raises(invs, i, context, done) ==
    IF i > Len(invs) THEN done
    ELSE LET passed == check(invs[i], context)
             seen == [done EXCEPT !.evaluated = Append(@, invs[i].name),
                                  !.all_passed = @ /\ passed,
                                  !.violations = IF passed THEN @ ELSE @ \cup {invs[i].name}]
         IN  IF ~passed /\ invs[i].severity = "HIGH"
             THEN check_from_never_raises(invs, i + 1, context,
                                          [seen EXCEPT !.alerts = @ + 1])
             ELSE check_from_never_raises(invs, i + 1, context, seen)

check_all_never_raises(invs, context) ==
    check_from_never_raises(invs, 1, context, NothingChecked)

\* The loop of InvariantChecker.check_all from the i-th invariant on: raising
\* SecurityInvariantViolation ends the loop.
RECURSIVE check_from(_, _, _, _)
check_from(invs, i, context, done) ==
    IF i > Len(invs) THEN done
    ELSE LET passed == check(invs[i], context)
             seen == [done EXCEPT !.evaluated = Append(@, invs[i].name),
                                  !.all_passed = @ /\ passed,
                                  !.violations = IF passed THEN @ ELSE @ \cup {invs[i].name}]
         IN  IF ~passed /\ invs[i].severity = "CRITICAL"
             THEN [seen EXCEPT !.raised = TRUE]
             ELSE IF ~passed /\ invs[i].severity = "HIGH"
             THEN check_from(invs, i + 1, context, [seen EXCEPT !.alerts = @ + 1])
             ELSE check_from(invs, i + 1, context, seen)

\* InvariantChecker.check_all: raised tells whether SecurityInvariantViolation
\* was raised, all_passed is the value returned otherwise.
check_all(invs, context) == check_from(invs, 1, context, NothingChecked)

\* previous_auth=None
NoPreviousAuth == [present |-> FALSE, privileges |-> {}]

\* The context authorize_operation builds (build_invariant_context).
InvariantContext(auth_result, trust_level, attempt, previous_auth) ==
    [granted_privileges |-> auth_result.privileges,
     trust_level |-> trust_level,
     auth_age_seconds |-> auth_result.age_seconds,
     attempt |-> attempt,
     current_privileges |-> auth_result.privileges,
     original_privileges |-> IF previous_auth.present THEN previous_auth.privileges
                             ELSE auth_result.privileges]

\* The retry arguments of a decision: a first attempt, or a retry after an
\* earlier grant.
RetryArguments ==
    {[attempt |-> 0, previous_auth |-> NoPreviousAuth],
     [attempt |-> 1, previous_auth |-> [present |-> TRUE, privileges |-> {"read"}]]}

\* A decision as its caller sees it: returned tells whether an AuthResult came
\* back (result) or SecurityInvariantViolation was raised; checked is what
\* check_all did, context the context it was given.
Decision(entry, trust_level, resource, operation, attempt, did, context, checked, returned) ==
    [entry |-> entry, trust_level |-> trust_level, resource |-> resource,
     operation |-> operation, attempt |-> attempt, result |-> did.result,
     backend_calls |-> did.backend_calls, cache_reads |-> did.cache_reads,
     cache_writes |-> did.cache_writes, timed_out |-> did.timed_out,
     context |-> context, checked |-> checked, returned |-> returned]

NoContext ==
    InvariantContext(PermissionResult(FALSE, "", {}, 0), "NORMAL", 0, NoPreviousAuth)

NoDecision ==
    Decision("", "NORMAL", "", "", 0,
             Effects(PermissionResult(FALSE, "", {}, 0), NoEntry, 0, 0, 0, FALSE),
             NoContext, NothingChecked, FALSE)

\* authorize_operation: the authorization logic is check_permission, which
\* reads the monitor's level when it starts (trust_level); the context is built
\* with trust_monitor.current_level read again after it (level_at_context), and
\* check_all's exception leaves the function.
authorize_operation(trust_level, level_at_context, user, resource, operation, attempt, previous_auth, backend, c) ==
    LET did == check_permission(trust_level, user, resource, operation, backend, c)
        context == InvariantContext(did.result, level_at_context, attempt, previous_auth)
        checked == check_all(invariants, context)
    IN  [cache |-> did.cache,
         decision |-> Decision("authorize_operation", trust_level, resource, operation,
                               attempt, did, context, checked, ~checked.raised)]

\* check_permission_with_invariants: the exception is logged, the result is
\* returned.
check_permission_with_invariants(trust_level, user, resource, operation, attempt, previous_auth, backend, c) ==
    LET did == check_permission(trust_level, user, resource, operation, backend, c)
        context == InvariantContext(did.result, trust_level, attempt, previous_auth)
        checked == check_all(invariants, context)
    IN  [cache |-> did.cache,
         decision |-> Decision("check_permission_with_invariants", trust_level, resource,
                               operation, attempt, did, context, checked, TRUE)]

DecideInit ==
    /\ cache = NoEntry
    /\ decision = NoDecision

\* The monitor publishes another level.
TrustLevelChanges ==
    /\ decision = NoDecision
    /\ \E level \in TrustLevel : level # current_level /\ current_level' = level
    /\ UNCHANGED <<time, level_enter_time, recent, transitions, cache, decision>>

\* The cached grant gets older.
CacheAges ==
    /\ decision = NoDecision
    /\ cache # NoEntry
    /\ \E age \in AgePoints :
         /\ age > cache.value.age_seconds
         /\ \A other \in AgePoints : other > cache.value.age_seconds => age <= other
         /\ cache' = [cache EXCEPT !.value.age_seconds = age]
    /\ UNCHANGED <<trustVars, decision>>

\* The cache backend drops its entry.
CacheEvicts ==
    /\ decision = NoDecision
    /\ cache # NoEntry
    /\ cache' = NoEntry
    /\ UNCHANGED <<trustVars, decision>>

\* A caller calls TrustAwareAuthorizer.check_permission.
CheckPermission ==
    /\ decision = NoDecision
    /\ \E resource \in DecideResources, operation \in RequestedOperations,
          backend \in BackendAnswers :
         LET did == check_permission(current_level, "alice", resource, operation,
                                     backend, cache)
         IN  /\ cache' = did.cache
             /\ decision' = Decision("check_permission", current_level, resource,
                                     operation, 0, did, NoContext, NothingChecked, TRUE)
    /\ UNCHANGED trustVars

\* A caller calls authorize_operation.  The monitor's periodic job may publish
\* another level while the request is in flight, between the authorization and
\* the building of the context.
AuthorizeOperation ==
    /\ decision = NoDecision
    /\ \E resource \in DecideResources, operation \in RequestedOperations,
          backend \in BackendAnswers, retry \in RetryArguments,
          level_at_context \in TrustLevel :
         LET out == authorize_operation(current_level, level_at_context, "alice",
                        resource, operation, retry.attempt, retry.previous_auth,
                        backend, cache)
         IN  /\ cache' = out.cache
             /\ decision' = out.decision
             /\ current_level' = level_at_context
    /\ UNCHANGED <<time, level_enter_time, recent, transitions>>

\* A caller calls check_permission_with_invariants.
CheckPermissionWithInvariants ==
    /\ decision = NoDecision
    /\ \E resource \in DecideResources, operation \in RequestedOperations,
          backend \in BackendAnswers, retry \in RetryArguments :
         LET out == check_permission_with_invariants(current_level, "alice", resource,
                        operation, retry.attempt, retry.previous_auth, backend, cache)
         IN  /\ cache' = out.cache
             /\ decision' = out.decision
    /\ UNCHANGED trustVars

\* The caller takes the decision; the next request can come.  Decisions are
\* followed one at a time: the cache and the level change between them.
ResultTaken ==
    /\ decision # NoDecision
    /\ decision' = NoDecision
    /\ UNCHANGED <<trustVars, cache>>

DecideNext ==
    \/ ResultTaken /\ UNCHANGED <<retryVars, auditVars, classifyVars, checkerVars, concVars, loopVars>>
    \/ TrustLevelChanges /\ UNCHANGED <<retryVars, auditVars, classifyVars, checkerVars, concVars, loopVars>>
    \/ CacheAges /\ UNCHANGED <<retryVars, auditVars, classifyVars, checkerVars, concVars, loopVars>>
    \/ CacheEvicts /\ UNCHANGED <<retryVars, auditVars, classifyVars, checkerVars, concVars, loopVars>>
    \/ CheckPermission /\ UNCHANGED <<retryVars, auditVars, classifyVars, checkerVars, concVars, loopVars>>
    \/ AuthorizeOperation /\ UNCHANGED <<retryVars, auditVars, classifyVars, checkerVars, concVars, loopVars>>
    \/ CheckPermissionWithInvariants /\ UNCHANGED <<retryVars, auditVars, classifyVars, checkerVars, concVars, loopVars>>

\* ------------------------------------------------ the invariant checker

\* The privilege sets and authorization ages of the contexts handed to
\* check_all: ages at and above each level's maximum.
ContextPrivileges == {{"read"}, {"read", "delete"}}
ContextAges == {0, 301, 1801, 3601}

\* The contexts authorize_operation can build.
Contexts ==
    {[granted_privileges |-> g, trust_level |-> l, auth_age_seconds |-> a,
      attempt |-> n, current_privileges |-> g, original_privileges |-> o] :
        g \in ContextPrivileges, l \in TrustLevel, a \in ContextAges,
        n \in {0, 1}, o \in ContextPrivileges}

CheckerInit ==
    /\ check_context = NoContext
    /\ check_outcome = NothingChecked

\* A decision's context is built.
BuildContext ==
    /\ check_outcome # NothingChecked \/ check_context = NoContext
    /\ check_context' \in Contexts
    /\ check_outcome' = NothingChecked

\* invariant_checker.check_all(context)
CheckAll ==
    /\ check_outcome = NothingChecked
    /\ check_context # NoContext
    /\ check_outcome' = check_all(invariants, check_context)
    /\ UNCHANGED check_context

CheckerNext ==
    \/ BuildContext
         /\ UNCHANGED <<retryVars, trustVars, decideVars, auditVars, classifyVars,
                        concVars, loopVars>>
    \/ CheckAll
         /\ UNCHANGED <<retryVars, trustVars, decideVars, auditVars, classifyVars,
                        concVars, loopVars>>

\* The invariants of the given severity that the context violates.
ViolatedOfSeverity(invs, context, severity) ==
    {i \in DOMAIN invs : invs[i].severity = severity /\ ~check(invs[i], context)}

\* C22: check_all raises exactly when the context violates a CRITICAL
\* invariant, every HIGH violation sends one alert, and no other violation
\* sends one.
C22_SeverityPolicy ==
    check_outcome # NothingChecked =>
        /\ check_outcome.raised <=>
              ViolatedOfSeverity(invariants, check_context, "CRITICAL") # {}
        /\ check_outcome.alerts =
              Cardinality(ViolatedOfSeverity(invariants, check_context, "HIGH"))

\* ------------------------------------------ claims on the decision path

\* The context of the decision violates a CRITICAL invariant.
ViolatesCritical(context) ==
    \/ ~PrivilegeBoundsInvariant(context)
    \/ ~MonotonicRetryPrivilegesInvariant(context)

\* C2: every decision returned with allowed=true grants a subset of the
\* privileges allowed at the trust level in force at the decision.
C2_GrantWithinTrustLevel ==
    (decision.returned /\ decision.result.allowed) =>
        decision.result.privileges \subseteq get_allowed_privileges(decision.trust_level)

C5_NoTrustAllowsNothingPrivate ==
    (/\ decision.entry = "check_permission"
     /\ decision.trust_level = "NO_TRUST"
     /\ decision.result.allowed) =>
        (is_public(decision.resource) /\ decision.operation = "read")

\* At NO_TRUST, with a grant for the request in the cache, a read of a resource
\* that is not public has been denied.
C5_Witness ==
    /\ decision.entry = "check_permission"
    /\ decision.trust_level = "NO_TRUST"
    /\ decision.resource = "private_doc"
    /\ decision.operation = "read"
    /\ cache.key = cache_key("alice", "private_doc", "read")
    /\ cache.value.allowed
    /\ ~decision.result.allowed

\* The invariants of the catalog that the context violates.
ViolatedBy(invs, context) ==
    {invs[i].name : i \in {j \in DOMAIN invs : ~check(invs[j], context)}}

\* C21: every call of check_all evaluates each registered invariant once,
\* whichever earlier invariants failed, and the violations it records are all
\* the invariants the context violates.
C21_EveryInvariantEvaluated ==
    decision.entry \in {"authorize_operation", "check_permission_with_invariants"} =>
        /\ decision.checked.evaluated = [i \in DOMAIN invariants |-> invariants[i].name]
        /\ decision.checked.violations = ViolatedBy(invariants, decision.context)

C12_TimeoutFallsBackOnlyAtDegradedRead ==
    (decision.entry = "check_permission" /\ decision.timed_out) =>
        /\ decision.cache_reads > 0 =>
              (decision.trust_level = "DEGRADED" /\ decision.operation = "read")
        /\ decision.result.allowed =>
              /\ decision.trust_level = "DEGRADED"
              /\ decision.operation = "read"
              /\ decision.cache_reads = 1
              /\ cache.key = cache_key("alice", decision.resource, "read")
              /\ decision.result = cache.value
              /\ decision.result.age_seconds <= 300
        /\ decision.cache_writes = 0

\* At DEGRADED a read whose fresh check timed out has been answered with a
\* cached grant 299 s old.
C12_Witness ==
    /\ decision.entry = "check_permission"
    /\ decision.timed_out
    /\ decision.trust_level = "DEGRADED"
    /\ decision.operation = "read"
    /\ decision.result.allowed
    /\ decision.result.age_seconds = 299

\* C13: at NO_TRUST check_permission allows a read of a public resource, with no
\* backend call and no cache read.
C13_NoTrustAllowsPublicRead ==
    (/\ decision.entry = "check_permission"
     /\ decision.trust_level = "NO_TRUST"
     /\ is_public(decision.resource)
     /\ decision.operation = "read") =>
        /\ decision.result.allowed
        /\ decision.backend_calls = 0
        /\ decision.cache_reads = 0

\* C23: the cache-age bounds are inclusive: a cached grant aged exactly 60 s
\* answers a read at CONSTRAINED and one aged exactly 300 s answers a read at
\* DEGRADED after a timeout; a grant aged 61 s (301 s) is not used.
C23_CacheAgeBoundsInclusive ==
    (/\ decision.entry = "check_permission"
     /\ decision.operation = "read"
     /\ cache.key = cache_key("alice", decision.resource, "read")
     /\ cache.value.allowed) =>
        /\ (decision.trust_level = "CONSTRAINED" /\ cache.value.age_seconds = 60) =>
              decision.result = cache.value
        /\ (decision.trust_level = "CONSTRAINED" /\ cache.value.age_seconds = 61) =>
              ~decision.result.allowed
        /\ (/\ decision.trust_level = "DEGRADED"
            /\ decision.timed_out
            /\ cache.value.age_seconds = 300) =>
              decision.result = cache.value
        /\ (/\ decision.trust_level = "DEGRADED"
            /\ decision.timed_out
            /\ cache.value.age_seconds = 301) =>
              ~decision.result.allowed

\* C24: at CONSTRAINED check_permission calls no backend and writes no cache,
\* and allows only a read, and only by returning the cached entry.
C24_ConstrainedUsesCacheOnly ==
    (decision.entry = "check_permission" /\ decision.trust_level = "CONSTRAINED") =>
        /\ decision.backend_calls = 0
        /\ decision.cache_writes = 0
        /\ decision.result.allowed =>
              /\ decision.operation = "read"
              /\ decision.cache_reads = 1
              /\ cache.key = cache_key("alice", decision.resource, "read")
              /\ decision.result = cache.value

\* At CONSTRAINED a read has been answered with the cached grant, 59 s old.
C24_Witness ==
    /\ decision.entry = "check_permission"
    /\ decision.trust_level = "CONSTRAINED"
    /\ decision.operation = "read"
    /\ decision.result.allowed
    /\ decision.result.age_seconds = 59
    /\ decision.backend_calls = 0

\* C28: one decision uses one trust level: the level of the allowed-operation
\* check and of the branch taken is the level of the invariant check of the
\* same request.
C28_OneTrustLevelPerDecision ==
    decision.entry = "authorize_operation" =>
        decision.context.trust_level = decision.trust_level

\* ------------------------------------------------ resilient audit service

\* self.audit_required_operations
audit_required_operations == {"admin", "delete", "share"}

\* The operations audited: one that always requires the audit, one that does
\* not, and the one process_sensitive_operation logs.
AuditedOperations == {"delete", "read", "sensitive_write"}

\* audit_record (the timestamp is left out)
AuditRecord(user, operation, resource, auth_result, required) ==
    [user |-> user, operation |-> operation, resource |-> resource,
     result |-> auth_result, required |-> required]

\* A log_operation that blocks only when the caller passed required=True.
log_operation_required_flag_only(user, operation, resource, auth_result, required, p_ok, f_ok, p_log, f_log) ==
    LET audit_record == AuditRecord(user, operation, resource, auth_result, required)
    IN  IF p_ok
        THEN [outcome |-> "True", primary_log |-> Append(p_log, audit_record),
              fallback_log |-> f_log, fallback_called |-> FALSE]
        ELSE IF f_ok
        THEN [outcome |-> "True", primary_log |-> p_log,
              fallback_log |-> Append(f_log, audit_record), fallback_called |-> TRUE]
        ELSE IF required
        THEN [outcome |-> "AuditFailureException", primary_log |-> p_log,
              fallback_log |-> f_log, fallback_called |-> TRUE]
        ELSE [outcome |-> "False", primary_log |-> p_log, fallback_log |-> f_log,
              fallback_called |-> TRUE]

\* A log_operation that blocks every operation when both sinks fail.
log_operation_blocks_every_operation(user, operation, resource, auth_result, required, p_ok, f_ok, p_log, f_log) ==
    LET audit_record == AuditRecord(user, operation, resource, auth_result, required)
    IN  IF p_ok
        THEN [outcome |-> "True", primary_log |-> Append(p_log, audit_record),
              fallback_log |-> f_log, fallback_called |-> FALSE]
        ELSE IF f_ok
        THEN [outcome |-> "True", primary_log |-> p_log,
              fallback_log |-> Append(f_log, audit_record), fallback_called |-> TRUE]
        ELSE IF TRUE
        THEN [outcome |-> "AuditFailureException", primary_log |-> p_log,
              fallback_log |-> f_log, fallback_called |-> TRUE]
        ELSE [outcome |-> "False", primary_log |-> p_log, fallback_log |-> f_log,
              fallback_called |-> TRUE]

\* ResilientAuditService.log_operation.  p_ok tells whether primary.log accepts
\* the record or raises AuditServiceError, the failure the method handles; f_ok
\* whether fallback.log accepts it or raises.  outcome is the value returned
\* ("True", "False") or the exception raised.
log_operation(user, operation, resource, auth_result, required, p_ok, f_ok, p_log, f_log) ==
    LET audit_record == AuditRecord(user, operation, resource, auth_result, required)
    IN  IF p_ok
        THEN [outcome |-> "True", primary_log |-> Append(p_log, audit_record),
              fallback_log |-> f_log, fallback_called |-> FALSE]
        ELSE IF f_ok
        THEN [outcome |-> "True", primary_log |-> p_log,
              fallback_log |-> Append(f_log, audit_record), fallback_called |-> TRUE]
        ELSE IF required \/ operation \in audit_required_operations
        THEN [outcome |-> "AuditFailureException", primary_log |-> p_log,
              fallback_log |-> f_log, fallback_called |-> TRUE]
        ELSE [outcome |-> "False", primary_log |-> p_log, fallback_log |-> f_log,
              fallback_called |-> TRUE]

\* process_sensitive_operation(user, data) of resilient_audit_service.py:
\* has_permission, then process_data, then the required audit.
process_sensitive_operation(user, data, permitted, p_ok, f_ok, p_log, f_log, store) ==
    IF ~permitted
    THEN [outcome |-> "PermissionDenied", primary_log |-> p_log, fallback_log |-> f_log,
          data_store |-> store, fallback_called |-> FALSE]
    ELSE LET processed == Append(store, data)
             logged == log_operation(user, "sensitive_write", data, "processed", TRUE,
                                     p_ok, f_ok, p_log, f_log)
         IN  [outcome |-> IF logged.outcome = "AuditFailureException"
                          THEN "AuditFailureException" ELSE "returned",
              primary_log |-> logged.primary_log, fallback_log |-> logged.fallback_log,
              data_store |-> processed, fallback_called |-> logged.fallback_called]

\* What the state keeps of an audited call: its arguments, the sinks' health
\* and the logs and the data store as the call found them, and its outcome.
Audited(entry, operation, required, out) ==
    [entry |-> entry, operation |-> operation, required |-> required,
     primary_ok |-> primary_ok, fallback_ok |-> fallback_ok,
     primary_before |-> primary_log, fallback_before |-> fallback_log,
     store_before |-> data_store, outcome |-> out.outcome,
     fallback_called |-> out.fallback_called]

NoAudit ==
    [entry |-> "", operation |-> "", required |-> FALSE, primary_ok |-> TRUE,
     fallback_ok |-> TRUE, primary_before |-> <<>>, fallback_before |-> <<>>,
     store_before |-> <<>>, outcome |-> "", fallback_called |-> FALSE]

AuditInit ==
    /\ primary_ok = TRUE
    /\ fallback_ok = TRUE
    /\ primary_log = <<>>
    /\ fallback_log = <<>>
    /\ data_store = <<>>
    /\ audit = NoAudit

\* The primary audit sink goes down or comes back.
PrimarySinkChanges ==
    /\ audit = NoAudit
    /\ primary_ok' = ~primary_ok
    /\ UNCHANGED <<fallback_ok, primary_log, fallback_log, data_store, audit>>

\* The fallback audit sink goes down or comes back.
FallbackSinkChanges ==
    /\ audit = NoAudit
    /\ fallback_ok' = ~fallback_ok
    /\ UNCHANGED <<primary_ok, primary_log, fallback_log, data_store, audit>>

\* A caller calls audit_service.log_operation.
LogOperation ==
    /\ audit = NoAudit
    /\ Len(primary_log) < MaxRecords
    /\ Len(fallback_log) < MaxRecords
    /\ \E operation \in AuditedOperations, required \in BOOLEAN :
         LET out == log_operation("alice", operation, "doc", "allowed", required,
                                  primary_ok, fallback_ok, primary_log, fallback_log)
         IN  /\ primary_log' = out.primary_log
             /\ fallback_log' = out.fallback_log
             /\ audit' = Audited("log_operation", operation, required, out)
    /\ UNCHANGED <<primary_ok, fallback_ok, data_store>>

\* A caller calls process_sensitive_operation.
ProcessSensitiveOperation ==
    /\ audit = NoAudit
    /\ Len(primary_log) < MaxRecords
    /\ Len(fallback_log) < MaxRecords
    /\ Len(data_store) < MaxProcessed
    /\ \E permitted \in BOOLEAN :
         LET out == process_sensitive_operation("alice", "report", permitted, primary_ok,
                        fallback_ok, primary_log, fallback_log, data_store)
         IN  /\ primary_log' = out.primary_log
             /\ fallback_log' = out.fallback_log
             /\ data_store' = out.data_store
             /\ audit' = Audited("process_sensitive_operation", "sensitive_write", TRUE, out)
    /\ UNCHANGED <<primary_ok, fallback_ok>>

\* The caller takes the outcome; the next call can come.
OutcomeTaken ==
    /\ audit # NoAudit
    /\ audit' = NoAudit
    /\ UNCHANGED <<primary_ok, fallback_ok, primary_log, fallback_log, data_store>>

AuditNext ==
    \/ PrimarySinkChanges /\ UNCHANGED <<retryVars, trustVars, decideVars, classifyVars, checkerVars, concVars, loopVars>>
    \/ FallbackSinkChanges /\ UNCHANGED <<retryVars, trustVars, decideVars, classifyVars, checkerVars, concVars, loopVars>>
    \/ LogOperation /\ UNCHANGED <<retryVars, trustVars, decideVars, classifyVars, checkerVars, concVars, loopVars>>
    \/ ProcessSensitiveOperation /\ UNCHANGED <<retryVars, trustVars, decideVars, classifyVars, checkerVars, concVars, loopVars>>
    \/ OutcomeTaken /\ UNCHANGED <<retryVars, trustVars, decideVars, classifyVars, checkerVars, concVars, loopVars>>

\* ------------------------------------------ claims on the audit service

\* One of the two sinks accepted the record of the audited call.
RecordAccepted ==
    \/ Len(primary_log) = Len(audit.primary_before) + 1
    \/ Len(fallback_log) = Len(audit.fallback_before) + 1

\* C7: when both sinks fail for an operation that is flagged required or named
\* admin, delete or share, log_operation raises AuditFailureException; it
\* returns True for such an operation only if a sink accepted the record.
C7_RequiredAuditFailureBlocks ==
    (/\ audit.entry = "log_operation"
     /\ audit.required \/ audit.operation \in audit_required_operations) =>
        /\ (~audit.primary_ok /\ ~audit.fallback_ok) =>
              audit.outcome = "AuditFailureException"
        /\ audit.outcome = "True" => RecordAccepted
        /\ audit.outcome # "False"

\* Both sinks were down for a delete that was not flagged required, and
\* log_operation raised.
C7_Witness ==
    /\ audit.entry = "log_operation"
    /\ audit.operation = "delete"
    /\ ~audit.required
    /\ ~audit.primary_ok
    /\ ~audit.fallback_ok
    /\ primary_log = audit.primary_before
    /\ fallback_log = audit.fallback_before
    /\ audit.outcome = "AuditFailureException"

\* C17: when both sinks fail for an operation that is neither flagged required
\* nor named admin, delete or share, log_operation returns False and raises
\* nothing; it returns True exactly when the primary sink, or the fallback after
\* a primary failure, accepted the record; the fallback is not called when the
\* primary accepted it.
C17_OptionalAuditFailureReturnsFalse ==
    audit.entry = "log_operation" =>
        LET audit_record == AuditRecord("alice", audit.operation, "doc", "allowed",
                                        audit.required)
            by_primary == primary_log = Append(audit.primary_before, audit_record)
            by_fallback == fallback_log = Append(audit.fallback_before, audit_record)
        IN  /\ (/\ ~audit.primary_ok
                /\ ~audit.fallback_ok
                /\ ~audit.required
                /\ audit.operation \notin audit_required_operations) =>
                  audit.outcome = "False"
            /\ audit.outcome = "True" <=>
                  (by_primary \/ (~audit.primary_ok /\ by_fallback))
            /\ by_primary => (~audit.fallback_called /\ ~by_fallback)
            /\ audit.primary_ok => by_primary

\* Both sinks were down for a read that was not flagged required, and
\* log_operation returned False.
C17_Witness ==
    /\ audit.entry = "log_operation"
    /\ audit.operation = "read"
    /\ ~audit.required
    /\ ~audit.primary_ok
    /\ ~audit.fallback_ok
    /\ audit.outcome = "False"

\* C8: when the required audit of process_sensitive_operation fails on both
\* sinks, the state change made by process_data is absent.
C8_NoSideEffectWithoutAudit ==
    (/\ audit.entry = "process_sensitive_operation"
     /\ audit.outcome = "AuditFailureException") =>
        data_store = audit.store_before

\* -------------------------------------------- claims on the trust monitor

\* How many of the newest evaluations in a row computed `level`.
ConfirmingEvaluations(history, level) ==
    Cardinality({k \in 1 .. Len(history) :
                   \A j \in (Len(history) - k + 1) .. Len(history) : history[j] = level})

\* C4: current_level moves to a level of lower rank only after min_level_duration
\* at the previous level and after 3 consecutive evaluations computed the lower
\* level; an evaluation that computes the current level never changes it.
C4_DowngradeNeedsDwellAndConfirmation ==
    [][/\ TrustLevelValue(current_level') < TrustLevelValue(current_level) =>
            /\ time - level_enter_time >= min_level_duration
            /\ ConfirmingEvaluations(recent', current_level') >= 3
       /\ (time' = time /\ recent' # <<>> /\ recent'[Len(recent')] = current_level) =>
            current_level' = current_level]_vars

\* The monitor has gone down to NO_TRUST, and a spike was computed before that
\* without effect.
C4_Witness ==
    /\ current_level = "NO_TRUST"
    /\ level_enter_time >= min_level_duration
    /\ recent = <<"NO_TRUST", "NO_TRUST", "NO_TRUST">>

\* C14: with the minimum duration at the current level elapsed, an evaluation
\* that computes a lower level leaves current_level as it is while fewer than 3
\* consecutive evaluations have computed that level, and the third moves
\* current_level to it.
C14_ThirdConfirmationDowngrades ==
    [][(/\ time' = time
        /\ recent' # <<>>
        /\ TrustLevelValue(recent'[Len(recent')]) < TrustLevelValue(current_level)
        /\ time - level_enter_time >= min_level_duration) =>
          IF ConfirmingEvaluations(recent', recent'[Len(recent')]) >= 3
          THEN current_level' = recent'[Len(recent')]
          ELSE current_level' = current_level]_vars

\* The third consecutive CONSTRAINED evaluation has just moved the monitor down
\* to CONSTRAINED.
C14_Witness ==
    /\ current_level = "CONSTRAINED"
    /\ level_enter_time = time
    /\ time >= min_level_duration
    /\ recent = <<"CONSTRAINED", "CONSTRAINED", "CONSTRAINED">>

\* C25: every change of current_level made by update_trust_level comes with one
\* transition event in the same update.
C25_LevelChangeEmitsEvent ==
    [][current_level' # current_level => transitions' = transitions + 1]_vars

\* C26: a transition is applied only when min_level_duration has passed since
\* the transition before it; a computed level of higher rank is applied on the
\* first evaluation after that time, without confirmations; level_enter_time
\* changes only when a transition is applied.
C26_DwellBetweenTransitionsAndPromptUpgrade ==
    [][/\ current_level' # current_level =>
            /\ time - level_enter_time >= min_level_duration
            /\ level_enter_time' = time
       /\ (/\ time' = time
           /\ recent' # <<>>
           /\ TrustLevelValue(recent'[Len(recent')]) > TrustLevelValue(current_level)
           /\ time - level_enter_time >= min_level_duration) =>
              current_level' = recent'[Len(recent')]
       /\ level_enter_time' # level_enter_time => current_level' # current_level]_vars

\* After three DEGRADED evaluations took the monitor down at 30 s, a single
\* NORMAL evaluation at 60 s has taken it back up.
C26_Witness ==
    /\ current_level = "NORMAL"
    /\ level_enter_time = 2 * min_level_duration
    /\ recent = <<"DEGRADED", "DEGRADED", "NORMAL">>

\* ---------------------------------------------- claims on the retry path

\* A step made by a call of authorize_with_retry with attempt > 0.
IsRetryStep ==
    /\ call'.attempt > 0
    /\ <<token_store, call, result>>' # <<token_store, call, result>>

\* The step is attempt k+1 of the chain whose attempt k the state records: the
\* same caller presents, for the same request, the token attempt k returned.
IsChainStep ==
    /\ IsRetryStep
    /\ result.allowed
    /\ call.attempt = 0 \/ call.previous_token = result.token
    /\ call'.previous_token = result.token
    /\ call'.attempt = call.attempt + 1
    /\ call'.user = call.user
    /\ call'.resource = call.resource
    /\ call'.operation = call.operation

\* C1: in a retry chain the privileges returned at attempt k+1 are a subset of
\* the privileges returned at attempt k, however the source's answer changes.
C1_ChainPrivilegesNonIncreasing ==
    [][(IsChainStep /\ result'.allowed) =>
          result'.privileges \subseteq result.privileges]_vars

\* The presented token keeps a stored token's id and differs from it in a bound
\* field.
PresentsAlteredToken(c, store) ==
    /\ c.attempt > 0
    /\ c.previous_token.token_id \in DOMAIN store
    /\ c.previous_token # store[c.previous_token.token_id]

\* C6: a retry that presents a token altered in any bound field (same token id)
\* returns allowed=false.
C6_AlteredTokenDenied ==
    PresentsAlteredToken(call, token_store) => ~result.allowed

\* C9: a retry that presents a stored token's id at or after that token's expiry
\* returns allowed=false, whatever the fields of the presented object.
C9_ExpiredTokenUnusable ==
    [][(/\ IsRetryStep
        /\ call'.previous_token.token_id \in DOMAIN token_store
        /\ utcnow >= token_store[call'.previous_token.token_id].expires_at)
       => ~result'.allowed]_vars

\* The presented token is absent, expired, or carries an id the store never
\* issued.
Rejectable(previous_token, store, now) ==
    \/ previous_token = NoToken
    \/ ~is_valid(previous_token, now)
    \/ previous_token.token_id \notin DOMAIN store

\* C10: a retry with an absent, expired or unknown token is denied with no token
\* and no privileges, leaves the token store as it was and does not ask the
\* authoritative source.
C10_RejectedRetryFailsClosed ==
    [][(IsRetryStep /\ Rejectable(call'.previous_token, token_store, utcnow)) =>
          /\ ~result'.allowed
          /\ result'.token = NoToken
          /\ result'.privileges = {}
          /\ token_store' = token_store
          /\ ~call'.queried]_vars

\* An expired stored token, presented as issued, has been rejected.
C10_Witness ==
    /\ call.attempt > 0
    /\ call.previous_token.token_id \in DOMAIN token_store
    /\ call.previous_token = token_store[call.previous_token.token_id]
    /\ utcnow = call.previous_token.expires_at
    /\ result.reason = "Invalid or expired authorization token"
    /\ ~result.allowed

\* C15: a retry whose token passes the checks is allowed with the stored
\* privileges intersected with the source's current answer, and
\* security_log.warning is called exactly when the intersection differs from
\* the stored privileges.
C15_RetryReturnsIntersectionAndWarns ==
    [][(IsRetryStep /\ ~Rejectable(call'.previous_token, token_store, utcnow)) =>
          LET stored == token_store[call'.previous_token.token_id]
          IN  /\ result'.allowed
              /\ result'.privileges = stored.privileges \cap auth_service
              /\ call'.warned <=> (result'.privileges # stored.privileges)]_vars

\* A grant of {read, write} has been narrowed to {read} on a retry, with the
\* warning and without a failure.
C15_Witness ==
    /\ call.attempt > 0
    /\ result.allowed
    /\ call.warned
    /\ result.token.privileges = {"read", "write"}
    /\ result.privileges = {"read"}

\* C18: every retry that is allowed returns a subset of the privileges stored in
\* the token at attempt 0, however the source's answer has changed since.
C18_RetryWithinStoredPrivileges ==
    (call.attempt > 0 /\ result.allowed) =>
        /\ result.token.token_id \in DOMAIN token_store
        /\ result.privileges \subseteq token_store[result.token.token_id].privileges

\* A retry has been allowed while the source answers more than the token
\* stores.
C18_Witness ==
    /\ call.attempt > 0
    /\ result.allowed
    /\ result.token.privileges = {"read"}
    /\ auth_service = {"read", "write"}
    /\ result.privileges = {"read"}

\* C19: a retry that is allowed returns the token stored at attempt 0, and no
\* retry adds, replaces or modifies an entry of the token store.
C19_RetryLeavesStoreAndReturnsStoredToken ==
    [][IsRetryStep =>
          /\ token_store' = token_store
          /\ result'.allowed =>
                /\ call'.previous_token.token_id \in DOMAIN token_store
                /\ result'.token = token_store[call'.previous_token.token_id]]_vars

\* The second retry of a chain has returned the stored token, its privileges as
\* stored, while the privileges returned are narrower.
C19_Witness ==
    /\ call.attempt = 2
    /\ result.allowed
    /\ result.token = token_store[1]
    /\ result.token.privileges = {"read", "write"}
    /\ result.privileges = {}

\* C20: a retry is allowed only when the subject, resource and operation of the
\* call equal those bound in the stored token.
C20_TokenBoundToRequest ==
    (call.attempt > 0 /\ result.allowed) =>
        /\ call.user = result.token.user_id
        /\ call.resource = result.token.resource_id
        /\ call.operation = result.token.operation

Init ==
    /\ RetryInit /\ TrustInit /\ DecideInit /\ AuditInit /\ ClassifyInit /\ CheckerInit
    /\ ConcInit /\ LoopInit

SpecRetry == Init /\ [][RetryNext]_vars

SpecTrust == Init /\ [][TrustNext]_vars

SpecDecide == Init /\ [][DecideNext]_vars

SpecAudit == Init /\ [][AuditNext]_vars

SpecClassify == Init /\ [][ClassifyNext]_vars

SpecChecker == Init /\ [][CheckerNext]_vars

SpecConcurrent == Init /\ [][ConcNext]_vars

SpecExecute == Init /\ [][LoopNext]_vars

====
